---- MODULE Spec2Model ----
(***************************************************************************)
(* Model of src/services/email.service.js: the three notification          *)
(* functions sendVerifyEmailTo, sendTripUpdateNotification and             *)
(* sendPendingRequestEmail, the mail transporter they share, and the       *)
(* placeholder substitution they apply to the HTML templates.              *)
(*                                                                         *)
(* Every async function is cut at its await points: one action per         *)
(* synchronous segment, as the JavaScript event loop runs it.              *)
(***************************************************************************)
EXTENDS Integers, Sequences, FiniteSets, TLC

VARIABLES
    env,          \* process.env: which settings are configured
    fn,           \* the function whose call is in progress, or "none"
    pc,           \* the await point the call is suspended at
    args,         \* the arguments of the call
    locals,       \* local variables of the call, and the outcomes of its lookups
    mails,        \* transporter.sendMail calls of this call, in issue order
    settleOrder,  \* indices of mails in the order their promises settled
    tokens,       \* payloads passed to a successful jwt.sign in this call
    logs,         \* console.error / console.warn / console.log of this call
    result,       \* how the call's promise settled, as the caller sees it
    rin,          \* rendering: template and values
    rout          \* rendering: the html produced

vars == <<env, fn, pc, args, locals, mails, settleOrder, tokens, logs, result, rin, rout>>
callVars == <<env, fn, pc, args, locals, mails, settleOrder, tokens, logs, result>>
renderVars == <<rin, rout>>

\* ---------------------------------------------------------------- bounds
MaxParticipants == 3
MaxTemplateLen == 3

\* ---------------------------------------------------------------- values
\* JavaScript null / undefined
Null == [null |-> TRUE]

Truthy(v) == ~v.null

Emails == {"creator@x", "ana@x", "ben@x"}

UserIds == {1, 2}

EmailOf(id) == IF id = 1 THEN "creator@x" ELSE "ana@x"

\* a row of the users table
User(id) == [null |-> FALSE, id_user |-> id, email |-> EmailOf(id)]

\* a row of the trips table
Trip(creator) == [null |-> FALSE, id_trip |-> 1, id_creator |-> creator]

\* a participant record handed to sendTripUpdateNotification
Participant(e) == [email |-> e]

RECURSIVE SeqsUpTo(_, _)
SeqsUpTo(S, n) ==
    IF n = 0 THEN {<<>>}
    ELSE LET shorter == SeqsUpTo(S, n - 1)
         IN  shorter \cup {Append(s, x) : s \in {t \in shorter : Len(t) = n - 1}, x \in S}

ParticipantLists == SeqsUpTo({Participant(e) : e \in Emails}, MaxParticipants)

\* the value of the participants argument: an array, or null / undefined
ParticipantsArgs == {Null} \cup {[null |-> FALSE, items |-> l] : l \in ParticipantLists}

Undefined == [kind |-> "undefined", sent |-> 0, failed |-> 0, total |-> 0]
Info == [kind |-> "info", sent |-> 0, failed |-> 0, total |-> 0]
Tally(s, f, t) == [kind |-> "tally", sent |-> s, failed |-> f, total |-> t]

Pending == [status |-> "pending", value |-> Undefined]
Returned(v) == [status |-> "returned", value |-> v]
Raised == [status |-> "raised", value |-> Undefined]

NoArgs == [participants |-> Null, creatorEmail |-> "creator@x", updatedTrip |-> Null,
           userData |-> Null, newParticipation |-> Null]
NoLocals == [participant |-> Null, trip |-> Null, creator |-> Null, htmlTemplate |-> FALSE,
             lookups |-> <<>>]

NoRender == [kind |-> "none", template |-> <<>>, name |-> <<>>, title |-> <<>>, message |-> <<>>]
NotRendered == [done |-> FALSE, html |-> <<>>]

\* ---------------------------------------------------------------- transporter
\* nodemailer.createTransport builds the transport object from its options and
\* never inspects the credentials: it returns an object whether or not
\* GMAIL_USER and GMAIL_APP_PASSWORD are set.
createTransport(user, pass) == [null |-> FALSE, service |-> "gmail", user |-> user, pass |-> pass]

transporter == createTransport(env.GMAIL_USER, env.GMAIL_APP_PASSWORD)

\* the outcomes a sendMail promise can settle with: without credentials the
\* provider refuses the login, with them the send succeeds or fails
MailOutcomes ==
    IF env.GMAIL_USER /\ env.GMAIL_APP_PASSWORD THEN {"fulfilled", "rejected"} ELSE {"rejected"}

\* transporter.sendMail({to: ...}) appends one dispatch attempt
sendMail(ms, to) == Append(ms, [to |-> to, status |-> "pending"])

\* jwt.sign(payload, process.env.SECRET_KEY, ...) throws without a secret
SignOk == env.SECRET_KEY

\* no call is in progress: the caller may invoke one of the exported functions
Idle == pc = "idle"

\* a new call starts from a clean record of its effects
Begin(f, a) ==
    /\ fn' = f
    /\ args' = a
    /\ locals' = NoLocals
    /\ mails' = <<>>
    /\ settleOrder' = <<>>
    /\ tokens' = <<>>

\* the call's promise settles and the caller resumes
Finish(r) ==
    /\ pc' = "done"
    /\ result' = r

\* the caller has consumed the outcome of the call; nothing of the call is
\* kept, the module holds no state besides the transporter
Resume ==
    /\ pc = "done"
    /\ pc' = "idle"
    /\ fn' = "none"
    /\ args' = NoArgs
    /\ locals' = NoLocals
    /\ mails' = <<>>
    /\ settleOrder' = <<>>
    /\ tokens' = <<>>
    /\ logs' = <<>>
    /\ result' = Pending
    /\ UNCHANGED <<env, rin, rout>>

\* the call suspends at an await
Await(p) ==
    /\ pc' = p
    /\ result' = Pending

Log(tag) == logs' = Append(logs, tag)

\* the promise of dispatch attempt i settles with outcome o
Settle(i, o) ==
    /\ mails' = [mails EXCEPT ![i].status = o]
    /\ settleOrder' = Append(settleOrder, i)

\* ---------------------------------------------------------------- 1. sendVerifyEmailTo
\* variant: the catch block rethrows after logging
VerifyCatch_rethrow ==
    /\ Log("error")
    /\ Finish(Raised)

\* catch (error) { console.error(...) }: logged and swallowed
VerifyCatch ==
    /\ Log("error")
    /\ Finish(Returned(Undefined))

\* entry: the transporter guard, then await loadTemplate('verify.html')
sendVerifyEmailTo(userData) ==
    /\ Idle
    /\ Begin("sendVerifyEmailTo", [NoArgs EXCEPT !.userData = userData])
    /\ logs' = <<>>
    /\ IF ~Truthy(transporter)
       THEN Finish(Returned(Undefined))
       ELSE Await("verify_loadTemplate")
    /\ UNCHANGED <<env, rin, rout>>

\* loadTemplate settled: sign the token, build the link, call sendMail
sendVerifyEmailTo_loaded(templateOk) ==
    /\ pc = "verify_loadTemplate"
    /\ IF ~templateOk \/ ~Truthy(args.userData) \/ ~SignOk
       THEN /\ VerifyCatch
            /\ UNCHANGED <<tokens, mails>>
       ELSE /\ tokens' = Append(tokens, [action |-> "verify", id |-> args.userData.id_user])
            /\ mails' = sendMail(mails, args.userData.email)
            /\ Await("verify_sendMail")
            /\ UNCHANGED logs
    /\ locals' = [locals EXCEPT !.htmlTemplate = templateOk]
    /\ UNCHANGED <<env, fn, args, settleOrder, rin, rout>>

\* await transporter.sendMail(...) settled
sendVerifyEmailTo_sent(outcome) ==
    /\ pc = "verify_sendMail"
    /\ Settle(1, outcome)
    /\ IF outcome = "rejected"
       THEN VerifyCatch
       ELSE /\ Finish(Returned(Undefined))
            /\ UNCHANGED logs
    /\ UNCHANGED <<env, fn, args, locals, tokens, rin, rout>>

\* ---------------------------------------------------------------- 2. sendTripUpdateNotification
\* variant: the creator is not filtered out
recipientsToNotify_unfiltered(participants, creatorEmail) == participants

\* participants.filter(p => p.email !== creatorEmail)
RECURSIVE recipientsToNotify(_, _)
recipientsToNotify(participants, creatorEmail) ==
    IF participants = <<>> THEN <<>>
    ELSE LET rest == recipientsToNotify(Tail(participants), creatorEmail)
         IN  IF Head(participants).email # creatorEmail
             THEN <<Head(participants)>> \o rest
             ELSE rest

\* recipientsToNotify.map(participant => transporter.sendMail({to: participant.email}))
RECURSIVE emailPromises(_)
emailPromises(recipients) ==
    IF recipients = <<>> THEN <<>>
    ELSE <<[to |-> Head(recipients).email, status |-> "pending"]>> \o emailPromises(Tail(recipients))

\* variant: Promise.all, which settles at the first rejection
allSettled_failFast(ms) ==
    \/ \E i \in 1..Len(ms) : ms[i].status = "rejected"
    \/ \A i \in 1..Len(ms) : ms[i].status = "fulfilled"

\* Promise.allSettled resolves once no promise of the batch is pending
allSettled(ms) == \A i \in 1..Len(ms) : ms[i].status # "pending"

\* variant: every result is counted as sent
successful_all(ms) == Len(ms)

\* results.filter(r => r.status === 'fulfilled').length
successful(ms) == Cardinality({i \in 1..Len(ms) : ms[i].status = "fulfilled"})

\* results.filter(r => r.status === 'rejected')
failed(ms) == {i \in 1..Len(ms) : ms[i].status = "rejected"}

\* the outer catch: logged, not rethrown
TripCatch ==
    /\ Log("error")
    /\ Finish(Returned(Undefined))

\* entry: the guard (outside the try), then await loadTemplate('datesModified.html')
sendTripUpdateNotification(participants, updatedTrip, creatorEmail) ==
    /\ Idle
    /\ Begin("sendTripUpdateNotification",
             [NoArgs EXCEPT !.participants = participants, !.updatedTrip = updatedTrip,
                            !.creatorEmail = creatorEmail])
    /\ IF ~Truthy(transporter)
       THEN /\ logs' = <<"warn">>
            /\ Finish(Returned(Undefined))
       ELSE IF ~Truthy(participants)
       THEN \* participants.length of null: TypeError before the try block
            /\ logs' = <<>>
            /\ Finish(Raised)
       ELSE IF Len(participants.items) = 0
       THEN /\ logs' = <<"warn">>
            /\ Finish(Returned(Undefined))
       ELSE /\ logs' = <<>>
            /\ Await("trip_loadTemplate")
    /\ UNCHANGED <<env, rin, rout>>

\* loadTemplate settled: details url, filter, map to sendMail, await allSettled
sendTripUpdateNotification_loaded(templateOk) ==
    /\ pc = "trip_loadTemplate"
    /\ LET recipients == recipientsToNotify(args.participants.items, args.creatorEmail)
       IN  IF ~templateOk \/ ~Truthy(args.updatedTrip)
           THEN /\ TripCatch
                /\ UNCHANGED mails
           ELSE IF Len(recipients) = 0
           THEN /\ Log("log")
                /\ Finish(Returned(Undefined))
                /\ UNCHANGED mails
           ELSE /\ mails' = emailPromises(recipients)
                /\ Await("trip_allSettled")
                /\ UNCHANGED logs
    /\ locals' = [locals EXCEPT !.htmlTemplate = templateOk]
    /\ UNCHANGED <<env, fn, args, settleOrder, tokens, rin, rout>>

\* one sendMail promise of the batch settles
sendTripUpdateNotification_settle(i, outcome) ==
    /\ pc = "trip_allSettled"
    /\ i \in 1..Len(mails)
    /\ mails[i].status = "pending"
    /\ Settle(i, outcome)
    /\ UNCHANGED <<env, fn, pc, args, locals, tokens, logs, result, rin, rout>>

\* await Promise.allSettled(emailPromises) resumed: tally, log, return
sendTripUpdateNotification_settled ==
    /\ pc = "trip_allSettled"
    /\ allSettled(mails)
    /\ logs' = IF Cardinality(failed(mails)) > 0 THEN logs \o <<"error", "log">> ELSE Append(logs, "log")
    /\ Finish(Returned(Tally(successful(mails), Cardinality(failed(mails)), Len(mails))))
    /\ UNCHANGED <<env, fn, args, locals, mails, settleOrder, tokens, rin, rout>>

\* ---------------------------------------------------------------- 3. sendPendingRequestEmail
\* catch (error) { console.error(...); throw error; }
PendingCatch ==
    /\ Log("error")
    /\ Finish(Raised)

\* the outcomes of UsersModel.selectById / TripsModel.tripsById
LookupOutcomes == {"found", "absent", "throws"}

\* entry: the transporter guard, destructuring, then await UsersModel.selectById(id_user)
sendPendingRequestEmail(newParticipation) ==
    /\ Idle
    /\ Begin("sendPendingRequestEmail", [NoArgs EXCEPT !.newParticipation = newParticipation])
    /\ IF ~Truthy(transporter)
       THEN /\ logs' = <<>>
            /\ Finish(Returned(Undefined))
       ELSE IF ~Truthy(newParticipation)
       THEN /\ logs' = <<"error">>
            /\ Finish(Raised)
       ELSE /\ logs' = <<>>
            /\ Await("pending_selectParticipant")
    /\ UNCHANGED <<env, rin, rout>>

\* UsersModel.selectById(id_user) settled, then await TripsModel.tripsById(id_trip)
sendPendingRequestEmail_participant(outcome) ==
    /\ pc = "pending_selectParticipant"
    /\ IF outcome = "throws"
       THEN /\ PendingCatch
            /\ locals' = [locals EXCEPT !.lookups = Append(@, outcome)]
       ELSE /\ locals' = [locals EXCEPT !.lookups = Append(@, outcome), !.participant =
                            IF outcome = "found" THEN User(args.newParticipation.id_user) ELSE Null]
            /\ Await("pending_tripsById")
            /\ UNCHANGED logs
    /\ UNCHANGED <<env, fn, args, mails, settleOrder, tokens, rin, rout>>

\* TripsModel.tripsById settled; the missing-data check; await selectById(trip.id_creator)
sendPendingRequestEmail_trip(outcome, id_creator) ==
    /\ pc = "pending_tripsById"
    /\ LET trip == IF outcome = "found" THEN Trip(id_creator) ELSE Null
       IN  IF outcome = "throws"
           THEN /\ PendingCatch
                /\ locals' = [locals EXCEPT !.lookups = Append(@, outcome)]
           ELSE /\ locals' = [locals EXCEPT !.lookups = Append(@, outcome), !.trip = trip]
                /\ IF ~Truthy(locals.participant) \/ ~Truthy(trip)
                   THEN /\ Log("missing")
                        /\ Finish(Returned(Undefined))
                   ELSE /\ Await("pending_selectCreator")
                        /\ UNCHANGED logs
    /\ UNCHANGED <<env, fn, args, mails, settleOrder, tokens, rin, rout>>

\* variant: a missing creator is treated as an error
sendPendingRequestEmail_creator_strict(outcome) ==
    /\ pc = "pending_selectCreator"
    /\ IF outcome # "found"
       THEN /\ PendingCatch
            /\ locals' = [locals EXCEPT !.lookups = Append(@, outcome)]
       ELSE /\ locals' = [locals EXCEPT !.lookups = Append(@, outcome),
                                        !.creator = User(locals.trip.id_creator)]
            /\ UNCHANGED logs
            /\ Await("pending_loadTemplate")
    /\ UNCHANGED <<env, fn, args, mails, settleOrder, tokens, rin, rout>>

\* UsersModel.selectById(trip.id_creator) settled, then await loadTemplate
sendPendingRequestEmail_creator(outcome) ==
    /\ pc = "pending_selectCreator"
    /\ IF outcome = "throws"
       THEN /\ PendingCatch
            /\ locals' = [locals EXCEPT !.lookups = Append(@, outcome)]
       ELSE /\ locals' = [locals EXCEPT !.lookups = Append(@, outcome), !.creator =
                            IF outcome = "found" THEN User(locals.trip.id_creator) ELSE Null]
            /\ UNCHANGED logs
            /\ IF outcome = "absent"
               THEN Finish(Returned(Undefined))
               ELSE Await("pending_loadTemplate")
    /\ UNCHANGED <<env, fn, args, mails, settleOrder, tokens, rin, rout>>

\* variant: the links are built without signed tokens when signing is impossible
sendPendingRequestEmail_loaded_unsigned(templateOk) ==
    /\ pc = "pending_loadTemplate"
    /\ IF ~templateOk
       THEN /\ PendingCatch
            /\ UNCHANGED <<tokens, mails>>
       ELSE /\ tokens' = IF SignOk
                         THEN tokens \o
                              <<[action |-> "accepted", id |-> args.newParticipation.id_participation],
                                [action |-> "rejected", id |-> args.newParticipation.id_participation]>>
                         ELSE tokens
            /\ mails' = sendMail(mails, locals.creator.email)
            /\ Await("pending_sendMail")
            /\ UNCHANGED logs
    /\ locals' = [locals EXCEPT !.htmlTemplate = templateOk]
    /\ UNCHANGED <<env, fn, args, settleOrder, rin, rout>>

\* loadTemplate settled: sign both tokens, render, return transporter.sendMail(...)
sendPendingRequestEmail_loaded(templateOk) ==
    /\ pc = "pending_loadTemplate"
    /\ IF ~templateOk \/ ~SignOk
       THEN /\ PendingCatch
            /\ UNCHANGED <<tokens, mails>>
       ELSE /\ tokens' = tokens \o
                    <<[action |-> "accepted", id |-> args.newParticipation.id_participation],
                      [action |-> "rejected", id |-> args.newParticipation.id_participation]>>
            /\ mails' = sendMail(mails, locals.creator.email)
            /\ Await("pending_sendMail")
            /\ UNCHANGED logs
    /\ locals' = [locals EXCEPT !.htmlTemplate = templateOk]
    /\ UNCHANGED <<env, fn, args, settleOrder, rin, rout>>

\* the returned sendMail promise settles: the async function's promise follows
\* it, and a rejection bypasses the catch block (return without await)
sendPendingRequestEmail_sent(outcome) ==
    /\ pc = "pending_sendMail"
    /\ Settle(1, outcome)
    /\ Finish(IF outcome = "fulfilled" THEN Returned(Info) ELSE Raised)
    /\ UNCHANGED <<env, fn, args, locals, tokens, logs, rin, rout>>

\* ---------------------------------------------------------------- placeholder substitution
\* Text is a sequence of atoms: a placeholder token such as "{{tripTitle}}" is
\* one atom, "$" and "&" are the characters String.prototype.replace treats
\* specially in a replacement string, anything else is literal text.

RECURSIVE Flatten(_)
Flatten(ss) == IF ss = <<>> THEN <<>> ELSE Head(ss) \o Flatten(Tail(ss))

\* GetSubstitution of String.prototype.replace: in the replacement string
\* "$$" stands for "$" and "$&" for the matched text
RECURSIVE GetSubstitution(_, _)
GetSubstitution(matched, replacement) ==
    IF replacement = <<>> THEN <<>>
    ELSE IF Head(replacement) = "$" /\ Len(replacement) >= 2 /\ replacement[2] = "$"
    THEN <<"$">> \o GetSubstitution(matched, Tail(Tail(replacement)))
    ELSE IF Head(replacement) = "$" /\ Len(replacement) >= 2 /\ replacement[2] = "&"
    THEN <<matched>> \o GetSubstitution(matched, Tail(Tail(replacement)))
    ELSE <<Head(replacement)>> \o GetSubstitution(matched, Tail(replacement))

\* html.replace(/{{token}}/g, value)
replace(html, token, value) ==
    Flatten([i \in 1..Len(html) |->
                IF html[i] = token THEN GetSubstitution(token, value) ELSE <<html[i]>>])

\* values the model leaves fixed: formatDate results and the links
NewStart == <<"1 jun">>
NewEnd == <<"8 jun">>
OldStart == <<"1 may">>
OldEnd == <<"8 may">>
TripDetailsUrl == <<"https://app/trips/1">>
CreatorName == <<"Carla">>
AppUrl == <<"https://app/requests">>
AcceptLink == <<"https://api/action?token=a">>
RejectLink == <<"https://api/action?token=r">>

\* message || 'Sin mensaje'
userMessage(message) == IF message = <<>> THEN <<"Sin mensaje">> ELSE message

\* the chain of replace calls of sendTripUpdateNotification
renderDatesModified(htmlTemplate, name, title) ==
    LET h1 == replace(htmlTemplate, "{{participantName}}", name)
        h2 == replace(h1, "{{tripTitle}}", title)
        h3 == replace(h2, "{{newStartDate}}", NewStart)
        h4 == replace(h3, "{{newEndDate}}", NewEnd)
        h5 == replace(h4, "{{oldStartDate}}", OldStart)
        h6 == replace(h5, "{{oldEndDate}}", OldEnd)
    IN  replace(h6, "{{tripDetailsUrl}}", TripDetailsUrl)

\* the chain of replace calls of sendPendingRequestEmail
renderPendingRequest(htmlTemplate, name, title, message) ==
    LET h1 == replace(htmlTemplate, "{{creatorName}}", CreatorName)
        h2 == replace(h1, "{{userName}}", name)
        h3 == replace(h2, "{{tripTitle}}", title)
        h4 == replace(h3, "{{startDate}}", NewStart)
        h5 == replace(h4, "{{endDate}}", NewEnd)
        h6 == replace(h5, "{{userMessage}}", userMessage(message))
        h7 == replace(h6, "{{appUrl}}", AppUrl)
        h8 == replace(h7, "{{accepted}}", AcceptLink)
    IN  replace(h8, "{{rejected}}", RejectLink)

\* the template is rendered with the values of one recipient
Render ==
    /\ ~rout.done
    /\ rin.kind # "none"
    /\ rout' = [done |-> TRUE,
                html |-> IF rin.kind = "datesModified"
                         THEN renderDatesModified(rin.template, rin.name, rin.title)
                         ELSE renderPendingRequest(rin.template, rin.name, rin.title, rin.message)]
    /\ UNCHANGED <<callVars, rin>>

\* the next recipient: the rendered copy is handed to sendMail and dropped
Discard ==
    /\ rout.done
    /\ rout' = NotRendered
    /\ UNCHANGED <<callVars, rin>>

DatesModifiedAtoms == {"Hola ", "{{participantName}}", "{{tripTitle}}", "{{oldEndDate}}", "{{unknown}}"}
PendingRequestAtoms == {"Hola ", "{{userName}}", "{{userMessage}}", "{{accepted}}", "{{unknown}}"}

Names == {<<"Ana">>, <<"{{tripTitle}}">>, <<"{{userMessage}}">>, <<"$", "&">>, <<"$", "$">>}
Titles == {<<"Roma">>, <<"{{oldEndDate}}">>}
Messages == {<<>>, <<"Hola!">>, <<"{{accepted}}">>}

RenderInputs ==
    {[kind |-> "datesModified", template |-> t, name |-> n, title |-> ti, message |-> <<>>] :
        t \in SeqsUpTo(DatesModifiedAtoms, MaxTemplateLen), n \in Names, ti \in Titles}
    \cup
    {[kind |-> "pendingRequest", template |-> t, name |-> n, title |-> <<"Roma">>, message |-> m] :
        t \in SeqsUpTo(PendingRequestAtoms, MaxTemplateLen), n \in Names, m \in Messages}

\* ---------------------------------------------------------------- specification
Envs == [GMAIL_USER : BOOLEAN, GMAIL_APP_PASSWORD : BOOLEAN, SECRET_KEY : BOOLEAN]


Init ==
    /\ env \in Envs
    /\ fn = "none"
    /\ pc = "idle"
    /\ args = NoArgs
    /\ locals = NoLocals
    /\ mails = <<>>
    /\ settleOrder = <<>>
    /\ tokens = <<>>
    /\ logs = <<>>
    /\ result = Pending
    /\ rin = NoRender
    /\ rout = NotRendered

UserDatas == {Null} \cup {User(id) : id \in UserIds}

Participations ==
    {Null} \cup {[null |-> FALSE, id_participation |-> 7, id_trip |-> 1, id_user |-> u] : u \in UserIds}

Next ==
    \/ \E u \in UserDatas : sendVerifyEmailTo(u)
    \/ \E ok \in BOOLEAN : sendVerifyEmailTo_loaded(ok)
    \/ \E o \in MailOutcomes : sendVerifyEmailTo_sent(o)
    \/ \E p \in ParticipantsArgs, t \in {Null, Trip(1)}, c \in Emails :
          sendTripUpdateNotification(p, t, c)
    \/ \E ok \in BOOLEAN : sendTripUpdateNotification_loaded(ok)
    \/ \E i \in 1..MaxParticipants, o \in MailOutcomes : sendTripUpdateNotification_settle(i, o)
    \/ sendTripUpdateNotification_settled
    \/ \E n \in Participations : sendPendingRequestEmail(n)
    \/ \E o \in LookupOutcomes : sendPendingRequestEmail_participant(o)
    \/ \E o \in LookupOutcomes, c \in UserIds : sendPendingRequestEmail_trip(o, c)
    \/ \E o \in LookupOutcomes : sendPendingRequestEmail_creator(o)
    \/ \E ok \in BOOLEAN : sendPendingRequestEmail_loaded(ok)
    \/ \E o \in MailOutcomes : sendPendingRequestEmail_sent(o)
    \/ Resume

Spec == Init /\ [][Next]_vars

TypeOK ==
    /\ pc \in {"idle", "done", "verify_loadTemplate", "verify_sendMail", "trip_loadTemplate",
               "trip_allSettled", "pending_selectParticipant", "pending_tripsById",
               "pending_selectCreator", "pending_loadTemplate", "pending_sendMail"}
    /\ result.status \in {"pending", "returned", "raised"}
    /\ (pc = "done") = (result.status # "pending")

\* rendering on its own: the inputs are drawn at the start, no call is in progress
InitRender ==
    /\ env = [GMAIL_USER |-> TRUE, GMAIL_APP_PASSWORD |-> TRUE, SECRET_KEY |-> TRUE]
    /\ fn = "none"
    /\ pc = "idle"
    /\ args = NoArgs
    /\ locals = NoLocals
    /\ mails = <<>>
    /\ settleOrder = <<>>
    /\ tokens = <<>>
    /\ logs = <<>>
    /\ result = Pending
    /\ rin \in RenderInputs
    /\ rout = NotRendered

NextRender == Render \/ Discard

SpecRender == InitRender /\ [][NextRender]_vars

\* ---------------------------------------------------------------- properties
InTrip == fn = "sendTripUpdateNotification"
InVerify == fn = "sendVerifyEmailTo"
InPending == fn = "sendPendingRequestEmail"
Done == pc = "done"

\* the participant entries whose email is not the creator's
Others == {i \in 1..Len(args.participants.items) :
              args.participants.items[i].email # args.creatorEmail}

EntriesOf(e) == {i \in 1..Len(args.participants.items) : args.participants.items[i].email = e}
MailsTo(e) == {i \in 1..Len(mails) : mails[i].to = e}
WithStatus(st) == {i \in 1..Len(mails) : mails[i].status = st}
Logged(tag) == \E i \in 1..Len(logs) : logs[i] = tag
Signed(action) == \E i \in 1..Len(tokens) : tokens[i].action = action
Looked(outcome) == \E i \in 1..Len(locals.lookups) : locals.lookups[i] = outcome
CredentialsSet == env.GMAIL_USER /\ env.GMAIL_APP_PASSWORD

\* C1: once the template has loaded (and the trip snapshot is usable),
\* sendTripUpdateNotification has issued exactly one dispatch per participant
\* entry whose email differs from creatorEmail and none to the creator's
\* address; with an empty list, or only the creator in it, it issues no
\* dispatch and returns undefined.
C1_OneDispatchPerOtherParticipant ==
    (InTrip /\ Truthy(args.participants)) =>
        /\ (locals.htmlTemplate /\ Truthy(args.updatedTrip)) =>
              /\ Len(mails) = Cardinality(Others)
              /\ \A e \in Emails :
                    Cardinality(MailsTo(e)) =
                        IF e = args.creatorEmail THEN 0 ELSE Cardinality(EntriesOf(e))
        /\ (Others = {} /\ Done) =>
              /\ mails = <<>>
              /\ result = Returned(Undefined)

C1_Witness ==
    /\ InTrip /\ Done /\ Truthy(args.participants)
    /\ Len(args.participants.items) = 3
    /\ args.participants.items[1].email = args.creatorEmail
    /\ Cardinality(Others) = 2
    /\ Len(mails) = 2
    /\ result.value = Tally(2, 0, 2)

\* C2: when sendTripUpdateNotification has dispatched to a non-empty filtered
\* list and returns, it returns a tally whose total is the number of filtered
\* recipients, sent the number of fulfilled dispatches, failed the number of
\* rejected dispatches, and sent + failed = total.
C2_TallyCounts ==
    (InTrip /\ Done /\ mails # <<>>) =>
        /\ result.status = "returned"
        /\ result.value.kind = "tally"
        /\ result.value.total = Cardinality(Others)
        /\ result.value.sent = Cardinality(WithStatus("fulfilled"))
        /\ result.value.failed = Cardinality(WithStatus("rejected"))
        /\ result.value.sent + result.value.failed = result.value.total

C2_Witness ==
    /\ InTrip /\ Done
    /\ Len(mails) = 2
    /\ result = Returned(Tally(1, 1, 2))

\* C3: sendTripUpdateNotification never raises to its caller.
C3_TripUpdateNeverRaises == InTrip => result.status # "raised"

\* C4: every failure sendPendingRequestEmail raises to its caller has been
\* logged by the function first.
C4_RaisedOnlyAfterLogged == (InPending /\ result.status = "raised") => Logged("error")

\* C5: with the mail credentials missing every function is a no-op: no
\* dispatch attempt is made and the call does not raise (stated for calls
\* whose participants and participation arguments are not null).
C5_NoCredentialsNoOp ==
    (/\ ~CredentialsSet
     /\ fn # "none"
     /\ InTrip => Truthy(args.participants)
     /\ InPending => Truthy(args.newParticipation)) =>
        /\ mails = <<>>
        /\ result.status # "raised"

\* C6 as stated: sendPendingRequestEmail dispatches nothing and does not raise
\* whenever a lookup returned nothing, and makes exactly one dispatch, to the
\* creator's email, when all three lookups resolved.
C6_AsStated ==
    (InPending /\ Done) =>
        /\ Looked("absent") => (mails = <<>> /\ result.status # "raised")
        /\ locals.lookups = <<"found", "found", "found">> =>
              (Len(mails) = 1 /\ mails[1].to = EmailOf(locals.trip.id_creator))

\* C6 amended: sendPendingRequestEmail dispatches nothing whenever a lookup
\* returned nothing, and then returns without raising unless a lookup made
\* before the abort failed with an error; when all three lookups resolved,
\* the template loaded and the signing secret is configured, it makes exactly
\* one dispatch, addressed to the creator's email.
C6_AbsentNoDispatch ==
    InPending =>
        /\ Looked("absent") => mails = <<>>
        /\ (Done /\ Looked("absent") /\ ~Looked("throws")) => result = Returned(Undefined)
        /\ (Done /\ locals.lookups = <<"found", "found", "found">>
                 /\ locals.htmlTemplate /\ env.SECRET_KEY) =>
              (Len(mails) = 1 /\ mails[1].to = EmailOf(locals.trip.id_creator))

C6_Witness ==
    /\ InPending /\ Done
    /\ locals.lookups = <<"found", "found", "absent">>
    /\ mails = <<>>
    /\ result = Returned(Undefined)

\* C7: sendVerifyEmailTo never raises, returns undefined, and makes at most
\* one dispatch attempt per call.
C7_VerifyNeverRaises ==
    InVerify =>
        /\ result.status # "raised"
        /\ Done => result = Returned(Undefined)
        /\ Len(mails) <= 1

C7_Witness ==
    /\ InVerify /\ Done
    /\ Len(mails) = 1
    /\ mails[1].status = "rejected"
    /\ Logged("error")
    /\ result = Returned(Undefined)

\* what simultaneous substitution gives: every mapped token replaced by its
\* value, every other atom of the template unchanged
Substituted(template, mapping) ==
    Flatten([i \in 1..Len(template) |->
                IF template[i] \in DOMAIN mapping THEN mapping[template[i]] ELSE <<template[i]>>])

DatesModifiedMapping ==
    ("{{participantName}}" :> rin.name) @@ ("{{tripTitle}}" :> rin.title) @@
    ("{{newStartDate}}" :> NewStart) @@ ("{{newEndDate}}" :> NewEnd) @@
    ("{{oldStartDate}}" :> OldStart) @@ ("{{oldEndDate}}" :> OldEnd) @@
    ("{{tripDetailsUrl}}" :> TripDetailsUrl)

PendingRequestMapping ==
    ("{{creatorName}}" :> CreatorName) @@ ("{{userName}}" :> rin.name) @@
    ("{{tripTitle}}" :> rin.title) @@ ("{{startDate}}" :> NewStart) @@
    ("{{endDate}}" :> NewEnd) @@
    ("{{userMessage}}" :> IF rin.message = <<>> THEN <<"Sin mensaje">> ELSE rin.message) @@
    ("{{appUrl}}" :> AppUrl) @@ ("{{accepted}}" :> AcceptLink) @@ ("{{rejected}}" :> RejectLink)

\* C8: the rendered html is the template with every mapped token replaced by
\* exactly its mapped value and everything else unchanged, also when a value
\* itself contains a token of the mapping.
C8_RenderIsSubstitution ==
    rout.done =>
        rout.html = Substituted(rin.template,
                                IF rin.kind = "datesModified"
                                THEN DatesModifiedMapping ELSE PendingRequestMapping)

\* C9: every dispatch of the batch is issued before any of them settles, the
\* call returns only once every attempt has settled, a rejected attempt leaves
\* the others issued and awaited, and the tally depends on the outcomes alone,
\* not on the order in which the attempts settled.
C9_AllSettledBarrier ==
    (InTrip /\ Truthy(args.participants) /\ mails # <<>>) =>
        /\ Len(mails) = Cardinality(Others)
        /\ Done =>
              /\ WithStatus("pending") = {}
              /\ Len(settleOrder) = Len(mails)
              /\ {settleOrder[k] : k \in 1..Len(settleOrder)} = 1..Len(mails)
              /\ result = Returned(Tally(Cardinality(WithStatus("fulfilled")),
                                         Cardinality(WithStatus("rejected")),
                                         Len(mails)))
        /\ ~Done => result.status = "pending"

C9_Witness ==
    /\ InTrip /\ Done
    /\ Len(mails) = 3
    /\ settleOrder = <<2, 3, 1>>
    /\ mails[2].status = "rejected"
    /\ mails[1].status = "fulfilled"
    /\ mails[3].status = "fulfilled"
    /\ result = Returned(Tally(2, 1, 3))

\* C10 as stated: without a signing secret neither token-bearing function
\* dispatches, sendVerifyEmailTo returns without raising and
\* sendPendingRequestEmail raises; every dispatch follows the issuance of the
\* tokens of that email.
C10_AsStated ==
    /\ (~env.SECRET_KEY /\ (InVerify \/ InPending)) => mails = <<>>
    /\ (~env.SECRET_KEY /\ InVerify /\ Done) => result.status = "returned"
    /\ (~env.SECRET_KEY /\ InPending /\ Done) => result.status = "raised"
    /\ (InVerify /\ mails # <<>>) => Signed("verify")
    /\ (InPending /\ mails # <<>>) => (Signed("accepted") /\ Signed("rejected"))

\* C10 amended: as stated, except that without a signing secret
\* sendPendingRequestEmail raises only when it gets as far as an error: it
\* returns without raising when a lookup returned nothing (and no lookup
\* failed), because it aborts before any token is signed.
C10_NoSecretNoDispatch ==
    /\ (~env.SECRET_KEY /\ (InVerify \/ InPending)) => mails = <<>>
    /\ (~env.SECRET_KEY /\ InVerify /\ Done) => result.status = "returned"
    /\ (~env.SECRET_KEY /\ InPending /\ Done) =>
          IF Looked("absent") /\ ~Looked("throws")
          THEN result.status = "returned"
          ELSE result.status = "raised"
    /\ (InVerify /\ mails # <<>>) => Signed("verify")
    /\ (InPending /\ mails # <<>>) => (Signed("accepted") /\ Signed("rejected"))

C10_Witness ==
    /\ ~env.SECRET_KEY
    /\ InPending /\ Done
    /\ locals.lookups = <<"found", "found", "found">>
    /\ locals.htmlTemplate
    /\ mails = <<>>
    /\ result.status = "raised"

====
